---- MODULE Spec2Model ----
(***************************************************************************)
(* The subscription tracker API:                                           *)
(*   - MongoStore (src/middlewares/mongoStore.js), the store that          *)
(*     express-rate-limit calls on every request,                          *)
(*   - the four limiters built on it (rateLimit.middleware.js, found in    *)
(*     src/routes/subscription.routes.js from line 19 on),                 *)
(*   - the user, subscription and auth routers with their middleware       *)
(*     stacks (src/routes/user.routes.js, subscription.routes.js), and     *)
(*   - the user controllers createUser, updateUser and deleteUser          *)
(*     (src/controllers/user.controller.js and its later revision,         *)
(*     src/unnamed/part_005).                                              *)
(*                                                                         *)
(* Every `await` of a store method is one step of the model: the MongoDB   *)
(* operation it waits for takes effect atomically, and the synchronous     *)
(* code up to the next `await` (or the return) runs in the same step.      *)
(* Several calls are in flight at once, one per element of Procs.  Any     *)
(* operation of the store may throw (parameter `down` of its step).        *)
(* Times are in milliseconds, as in the code.                              *)
(***************************************************************************)
EXTENDS Integers, FiniteSets, Sequences, TLC

\* ------------------------------------------------------------------ bounds
MaxTicks == 2      \* the clock advances at most this many times
MaxCalls == 2      \* Spec: at most this many store calls are started
MaxCallsLimiters == 2   \* SpecLimiters: at most this many store calls are started
MaxRequests == 8   \* SpecAuth: at most this many requests are sent
MaxCallsSeq == 3   \* SpecSeq: at most this many store calls are started
MaxCallsLive == 2  \* SpecLive: at most this many store calls are started
MaxRequestsRoutes == 2  \* SpecRoutes: at most this many requests reach a limiter
MaxCallsUsers == 2  \* SpecUsers: at most this many controller calls are started

\* -------------------------------------------------------------- parameters
Procs == {"p1", "p2"}                 \* concurrent callers (requests in flight)
Keys == {"ip1", "ip2"}                \* client keys (req.ip)
Policies == {"general", "auth", "subscription", "user"}

TickMs == 450 * 1000                  \* the clock advances in steps of 7.5 minutes

\* rateLimit({windowMs: 15 * 60 * 1000, ...}) and createMongoStore(_, 15 * 60 * 1000)
windowMs ==
  [pol \in Policies |-> 15 * 60 * 1000]

\* rateLimit({max: ...})
max ==
  [general |-> 100, auth |-> 5, subscription |-> 200, user |-> 50]

\* handler: the `error` text of the 429 body
message ==
  [general |-> "Too many requests from this IP, please try again later.",
   auth |-> "Too many authentication attempts from this IP, please try again later.",
   subscription |-> "Too many subscription requests from this IP, please try again later.",
   user |-> "Too many user management requests from this IP, please try again later."]

\* createMongoStore(collectionName, windowMs): the collection of each limiter
collectionName ==
  [general |-> "general_rate_limits", auth |-> "auth_rate_limits",
   subscription |-> "subscription_rate_limits", user |-> "user_rate_limits"]

Collections == {collectionName[pol] : pol \in Policies}

\* this.model = mongoose.model(collectionName, rateLimitSchema, collectionName)
SharedModel(pol) == collectionName["general"]
Model(pol) == collectionName[pol]

\* ------------------------------------------------------------------- state
VARIABLES
  clock,      \* new Date(), in ms since the start
  db,         \* db[collection]: the documents of the collection
  calls,      \* calls[p]: the store call that caller p is running
  last,       \* the call that returned in the last step (NoCall: none did)
  prev,       \* SpecSeq: the call that returned before that one (NoCall: none did)
  hist,       \* SpecAuth: the history of the requests of the client
  budget,     \* the number of calls that may still be started
  reqs,       \* SpecRoutes: reqs[p]: the request that p has in the pipeline
  served,     \* SpecRoutes: the request that was answered last
  data,       \* SpecUsers: the users and subscriptions collections
  ctl,        \* SpecUsers: ctl[p]: the controller call that caller p is running
  ans         \* SpecUsers: the controller call that returned in the last step

vars == <<clock, db, calls, last, prev, hist, budget, reqs, served, data, ctl, ans>>

Null == [null |-> TRUE]

\* rateLimitSchema: {key, totalHits, resetTime}, plus MongoDB's _id: a document
\* of a collection
Stored(id, key, hits, rt) ==
  [id |-> id, key |-> key, totalHits |-> hits, resetTime |-> rt]

\* a document as a call has loaded it
Doc(id, hits, rt) == [id |-> id, totalHits |-> hits, resetTime |-> rt]

\* the documents with the key, and the first of them (the one a query for one
\* document meets)
WithKey(docs, key) == {d \in docs : d.key = key}

First(ds) == CHOOSE d \in ds : \A e \in ds : d.id <= e.id

\* this.model.findOne({ key }): the document, or null
FindOne(docs, key) ==
  IF WithKey(docs, key) = {} THEN Null
  ELSE LET d == First(WithKey(docs, key)) IN Doc(d.id, d.totalHits, d.resetTime)

\* store[collection][key]: what findOne({ key }) finds in the collection
store == [coll \in Collections |-> [k \in Keys |-> FindOne(db[coll], k)]]

\* key: {unique: true}: an insert is accepted when no document has the key
NoIndex(docs, key) == TRUE
Unique(docs, key) == WithKey(docs, key) = {}

\* pc: where the call is; now: the time the call was made (the value of its
\* `now` where it has one); found: the document the call's findOne returned or
\* resetKey's deleteOne met; branch: the branch increment took ("create",
\* "reset", "count"); record, mod: the mongoose document as the call has
\* changed it, and its modified paths; deleted: the deletedCount of the call's
\* deleteMany; ret: the value returned; threw: what the catch block caught
\* ("store": the operation failed, "dup": E11000, "notfound":
\* DocumentNotFoundError); overlapped, by: whether anything else acted on the
\* call's key while the call ran, and what did (the operations of the other
\* calls, "ttl": the TTL monitor); out, resp: what the limiter did with the
\* request
NoCall ==
  [pc |-> "idle", op |-> "none", pol |-> "none", key |-> "none",
   now |-> 0, resetTime |-> 0, found |-> Null, branch |-> "none",
   record |-> Null, mod |-> {}, deleted |-> 0,
   ret |-> Null, threw |-> "none", overlapped |-> FALSE, by |-> {},
   out |-> "none", resp |-> Null]

InFlight(c) == c.pc # "idle"

\* the calls in flight that work on the document of (pol, key);
\* cleanup works on every key of its collection
OnKey(c, pol, key) ==
  /\ InFlight(c)
  /\ c.pol = pol
  /\ (c.key = key \/ c.op = "cleanup")

\* a fresh ObjectId: one that no document and no loaded record of the collection has
FreshId(coll) ==
  LET used == {d.id : d \in db[coll]}
              \cup {calls[p].record.id :
                      p \in {p \in Procs : /\ calls[p].record # Null
                                           /\ Model(calls[p].pol) = coll}}
  IN CHOOSE n \in 1..(Cardinality(used) + 1) : n \notin used

\* ------------------------------------------------------- the policy wrapper
\* handler: res.status(429).json({success: false, error: ..., retryAfter: '15 minutes'})
HandlerPlain(pol) ==
  [status |-> 429,
   body |-> [success |-> FALSE, error |-> "Too many requests",
             retryAfter |-> "15 minutes"]]
Handler(pol) ==
  [status |-> 429,
   body |-> [success |-> FALSE, error |-> message[pol], retryAfter |-> "15 minutes"]]

\* express-rate-limit with {max, handler}: the handler answers when
\* totalHits > max, otherwise next() forwards the request
LimiterAtLeast(pol, ret) ==
  IF ret.totalHits >= max[pol]
    THEN [out |-> "rejected", resp |-> Handler(pol)]
    ELSE [out |-> "forwarded", resp |-> Null]
Limiter(pol, ret) ==
  IF ret.totalHits > max[pol]
    THEN [out |-> "rejected", resp |-> Handler(pol)]
    ELSE [out |-> "forwarded", resp |-> Null]

\* ---------------------------------------------------------------- history
\* hist is kept for the requests of SpecAuth only; elsewhere it stays Untracked.
\* n: requests sent; fwd: requests forwarded; rej: requests answered with 429;
\* first: the time of the first request (-1: none yet);
\* late: a request was sent at or after first + windowMs;
\* overlap: two requests were in flight at the same time
Untracked == [tracked |-> FALSE]

NoHist ==
  [n |-> 0, fwd |-> 0, rej |-> 0, first |-> -1, late |-> FALSE, overlap |-> FALSE]

\* the history after a step of a request
Track ==
  LET sent == budget' # budget
      answered == last' # NoCall
      h1 == IF sent
              THEN [hist EXCEPT
                      !.n = @ + 1,
                      !.first = IF @ = -1 THEN clock ELSE @,
                      !.late = @ \/ (hist.first # -1 /\
                                     clock >= hist.first + windowMs["auth"]),
                      !.overlap = @ \/ (\E q \in Procs : InFlight(calls[q]))]
              ELSE hist
      h2 == IF answered /\ last'.out = "forwarded" THEN [h1 EXCEPT !.fwd = @ + 1]
            ELSE IF answered /\ last'.out = "rejected" THEN [h1 EXCEPT !.rej = @ + 1]
            ELSE h1 IN
  hist' = IF hist = Untracked THEN hist ELSE h2

\* ------------------------------------------------------------------ routers
\* a route of a router: the verb and path it is declared with, and its stack
Route(verb, path, stack) == [verb |-> verb, path |-> path, stack |-> stack]

\* const userRouter = Router(); userRouter.use(userLimiter); userRouter.get(...)
userRouter ==
  [use |-> <<"userLimiter">>,
   routes |-> {Route("GET", "/", <<"authorize", "getUsers">>),
               Route("GET", "/:id", <<"authorize", "getUser">>),
               Route("POST", "/", <<"authorize", "createUser">>),
               Route("PUT", "/:id", <<"UPDATE user">>),
               Route("DELETE", "/:id", <<"authorize", "deleteUser">>)}]

\* const subscriptionRouter = Router(); subscriptionRouter.use(subscriptionLimiter)
subscriptionRouter ==
  [use |-> <<"subscriptionLimiter">>,
   routes |-> {Route("GET", "/", <<"GET all subscriptions">>),
               Route("GET", "/:id", <<"GET subscription details">>),
               Route("POST", "/", <<"CREATE subscription">>),
               Route("PUT", "/:id", <<"UPDATE subscription">>),
               Route("DELETE", "/:id", <<"DELETE subscription">>),
               Route("GET", "/user/:id", <<"GET all user subscriptions">>),
               Route("PUT", "/:id/cancel", <<"CANCEL subscription">>),
               Route("GET", "/upcoming-renewals", <<"GET upcoming renewals">>)}]

\* const authRouter = Router(); authRouter.post('/sign-up', authLimiter, signUp)
authRouter ==
  [use |-> <<>>,
   routes |-> {Route("POST", "/sign-up", <<"authLimiter", "signUp">>),
               Route("POST", "/sign-in", <<"authLimiter", "signIn">>),
               Route("POST", "/sign-out", <<"authLimiter", "signOut">>)}]

Routers == [user |-> userRouter, subscription |-> subscriptionRouter,
            auth |-> authRouter]

\* the routes that requests are sent to
Targets ==
  {[router |-> "user", route |-> r] : r \in userRouter.routes}
  \cup {[router |-> "subscription", route |-> r] : r \in subscriptionRouter.routes}
  \cup {[router |-> "auth", route |-> r] : r \in authRouter.routes}

\* the middlewares a request to the route runs through, in order: those the
\* router uses, then those of the route
StackRouteFirst(t) == t.route.stack \o Routers[t.router].use
Stack(t) == Routers[t.router].use \o t.route.stack

\* the limiters, and the policy each was built with
Limiters ==
  [userLimiter |-> "user", subscriptionLimiter |-> "subscription",
   authLimiter |-> "auth"]

IsLimiter(m) == m \in DOMAIN Limiters

\* the limiters have no keyGenerator: the key of a request is req.ip
KeyPerPath(ip, t) == IF t.route.path = "/sign-in" THEN "ip2" ELSE ip
KeyGenerator(ip, t) == ip

\* authorize (auth.middleware.js): next() for a valid Bearer token of a user,
\* otherwise, and when looking the user up fails,
\* res.status(401).json({message: 'Unauthorized'})
Credentials == {"none", "invalid", "valid"}

Authorize(cred, down) ==
  IF cred = "valid" /\ ~down THEN Null
  ELSE [status |-> 401, body |-> [message |-> "Unauthorized"]]

\* the handler at the end of a stack: the stubs answer res.send({title}); the
\* controllers take the request over
Handle(m) ==
  IF m \in {"getUsers", "getUser", "createUser", "deleteUser",
            "signUp", "signIn", "signOut"}
    THEN [controller |-> m]
    ELSE [status |-> 200, body |-> [title |-> m]]

\* a request in the pipeline: where it was sent, its credentials, the number
\* of middlewares of its stack it has entered, and how often each limiter's
\* store was asked to count it
NoReq == [idle |-> TRUE]

Req(t, cred) ==
  [target |-> t, cred |-> cred, entered |-> 0,
   counted |-> [pol \in Policies |-> 0]]

\* the next middleware of the request ("none": the stack is at its end)
Upcoming(r) ==
  IF r = NoReq \/ r.entered >= Len(Stack(r.target)) THEN "none"
  ELSE Stack(r.target)[r.entered + 1]

\* the middlewares the request has entered
Entered(r) == {Stack(r.target)[i] : i \in 1..r.entered}

\* served: the request that was answered last, with its response, and the
\* path of the request answered before it when that went to the same router
NoServed == [none |-> TRUE]

Answer(r, resp) ==
  [target |-> r.target, cred |-> r.cred, entered |-> r.entered,
   counted |-> r.counted, resp |-> resp,
   before |-> IF served # NoServed /\ served.target.router = r.target.router
                THEN served.target.route.path ELSE "none"]

\* the requests as a step of a store call moves them: the limiter that starts
\* increment has been entered; when increment returns it answers 429 or calls
\* next()
Starts(p) == ~InFlight(calls[p]) /\ InFlight(calls'[p])
Returns(p) == InFlight(calls[p]) /\ ~InFlight(calls'[p]) /\ last' # NoCall

Pipeline ==
  /\ reqs' = [p \in Procs |->
                IF reqs[p] = NoReq THEN NoReq
                ELSE IF Starts(p)
                  THEN [reqs[p] EXCEPT !.entered = @ + 1,
                                       !.counted[calls'[p].pol] = @ + 1]
                ELSE IF Returns(p) /\ last'.out = "rejected" THEN NoReq
                ELSE reqs[p]]
  /\ served' = IF \E p \in Procs : reqs[p] # NoReq /\ Returns(p)
                                   /\ last'.out = "rejected"
                 THEN LET p == CHOOSE q \in Procs : reqs[q] # NoReq /\ Returns(q)
                      IN Answer(reqs[p], last'.resp)
                 ELSE served
  /\ UNCHANGED <<data, ctl, ans>>

\* ------------------------------------------------------------ call frames
\* prev is kept in SpecSeq only; elsewhere it stays Untracked
Shift ==
  prev' = IF prev = Untracked \/ last = NoCall THEN prev ELSE last

\* the calls of other callers in flight on one of the keys
Others(p, pol, keys) ==
  {q \in Procs \ {p} : \E k \in keys : OnKey(calls[q], pol, k)}

\* caller p starts a call on `keys` of pol and is at c after this step; a call
\* that is at "done" has returned
Begin(p, c, pol, keys) ==
  LET os == Others(p, pol, keys)
      c1 == [c EXCEPT !.overlapped = (os # {}),
                      !.by = {calls[q].op : q \in os}] IN
  /\ ~InFlight(calls[p])
  /\ budget > 0
  /\ budget' = budget - 1
  /\ calls' = [q \in Procs |->
                 IF q = p THEN (IF c.pc = "done" THEN NoCall ELSE c1)
                 ELSE IF q \in os THEN [calls[q] EXCEPT !.overlapped = TRUE,
                                                          !.by = @ \cup {c.op}]
                 ELSE calls[q]]
  /\ last' = IF c.pc = "done" THEN c1 ELSE NoCall
  /\ Shift
  /\ Pipeline

\* the call of p takes its last step and returns as c
FinishNever(p, c) ==
  /\ calls' = calls
  /\ last' = NoCall
  /\ Shift
  /\ Pipeline
Finish(p, c) ==
  /\ calls' = [calls EXCEPT ![p] = NoCall]
  /\ last' = c
  /\ Shift
  /\ Pipeline

\* the call of p takes a step and is at c
Goto(p, c) ==
  /\ calls' = [calls EXCEPT ![p] = c]
  /\ last' = NoCall
  /\ Shift
  /\ Pipeline

\* a call returns ret (undefined: Null) after its catch block caught `threw`
DoneLoaded(c, ret, threw) ==
  [c EXCEPT !.pc = "done", !.ret = IF threw = "none" THEN ret ELSE c.record,
            !.threw = threw]
Done(c, ret, threw) ==
  [c EXCEPT !.pc = "done", !.ret = ret, !.threw = threw]

\* ---------------------------------------------------- MongoStore.increment
\* const now = new Date(); const resetTime = new Date(now.getTime() + this.windowMs)
IncrementStart(p, pol, key) ==
  /\ Begin(p,
       [NoCall EXCEPT !.pc = "inc_findOne", !.op = "increment", !.pol = pol,
                      !.key = key, !.now = clock,
                      !.resetTime = clock + windowMs[pol]],
       pol, {key})
  /\ UNCHANGED <<clock, db>>
  /\ Track

\* catch (error) { return {totalHits: 1, resetTime} }
FallbackAtCatch(c) == [totalHits |-> 1, resetTime |-> clock + windowMs[c.pol]]
FallbackBlocked(c) == [totalHits |-> max[c.pol] + 1, resetTime |-> c.resetTime]
Fallback(c) == [totalHits |-> 1, resetTime |-> c.resetTime]

\* increment returns ret; the limiter that awaited it answers or forwards
ReturnedAfterThrow(c, ret, threw) ==
  LET l == Limiter(c.pol, Fallback(c)) IN
  [Done(c, Fallback(c), "store") EXCEPT !.out = l.out, !.resp = l.resp]
Returned(c, ret, threw) ==
  LET l == Limiter(c.pol, ret) IN
  [Done(c, ret, threw) EXCEPT !.out = l.out, !.resp = l.resp]

\* if (now >= record.resetTime) { record.totalHits = 1; record.resetTime = resetTime }
\* else { record.totalHits += 1 }
\* (mongoose marks a path modified when the assigned value differs)
LoadedSlide(c, doc) ==
  IF c.now >= doc.resetTime
    THEN [c EXCEPT !.pc = "inc_save", !.branch = "reset",
                   !.record = Doc(doc.id, 1, c.resetTime),
                   !.mod = {"resetTime"} \cup
                           (IF doc.totalHits # 1 THEN {"totalHits"} ELSE {})]
    ELSE [c EXCEPT !.pc = "inc_save", !.branch = "count",
                   !.record = Doc(doc.id, doc.totalHits + 1, c.resetTime),
                   !.mod = {"totalHits"} \cup
                           (IF doc.resetTime # c.resetTime THEN {"resetTime"} ELSE {})]
LoadedNoReset(c, doc) ==
  [c EXCEPT !.pc = "inc_save", !.branch = "count",
            !.record = Doc(doc.id, doc.totalHits + 1, doc.resetTime),
            !.mod = {"totalHits"}]
Loaded(c, doc) ==
  IF c.now >= doc.resetTime
    THEN [c EXCEPT !.pc = "inc_save", !.branch = "reset",
                   !.record = Doc(doc.id, 1, c.resetTime),
                   !.mod = {"resetTime"} \cup
                           (IF doc.totalHits # 1 THEN {"totalHits"} ELSE {})]
    ELSE [c EXCEPT !.pc = "inc_save", !.branch = "count",
                   !.record = Doc(doc.id, doc.totalHits + 1, doc.resetTime),
                   !.mod = {"totalHits"}]

\* let record = await this.model.findOne({ key })  ...  up to the next await
IncrementFindOne(p, down) ==
  LET c == calls[p]
      doc == store[Model(c.pol)][c.key] IN
  /\ c.pc = "inc_findOne"
  /\ IF down
       THEN Finish(p, Returned(c, Fallback(c), "store"))
       ELSE IF doc = Null
         THEN Goto(p, [c EXCEPT !.pc = "inc_create", !.branch = "create"])
         ELSE Goto(p, Loaded([c EXCEPT !.found = doc], doc))
  /\ UNCHANGED <<clock, db, budget>>
  /\ Track

\* record = await this.model.create({key, totalHits: 1, resetTime}); the unique
\* index on key makes the insert throw (E11000) when a document has the key
IncrementCreate(p, down) ==
  LET c == calls[p]
      coll == Model(c.pol) IN
  /\ c.pc = "inc_create"
  /\ IF down
       THEN /\ Finish(p, Returned(c, Fallback(c), "store"))
            /\ UNCHANGED db
       ELSE IF ~Unique(db[coll], c.key)
         THEN /\ Finish(p, Returned(c, Fallback(c), "dup"))
              /\ UNCHANGED db
         ELSE /\ db' = [db EXCEPT ![coll] =
                          @ \cup {Stored(FreshId(coll), c.key, 1, c.resetTime)}]
              /\ Finish(p, Returned(c, [totalHits |-> 1, resetTime |-> c.resetTime],
                                    "none"))
  /\ UNCHANGED <<clock, budget>>
  /\ Track

\* await record.save(): updateOne({_id}, {$set: <the modified paths>}); it throws
\* DocumentNotFoundError when no document has the _id any more
Save(doc, rec, mod) ==
  [doc EXCEPT !.totalHits = IF "totalHits" \in mod THEN rec.totalHits ELSE @,
              !.resetTime = IF "resetTime" \in mod THEN rec.resetTime ELSE @]

Found(coll, key, rec) == \E d \in db[coll] : d.id = rec.id

\* the collection after updateOne({_id}, {$set: ...}) for the loaded record
Updated(docs, rec, mod) ==
  {IF d.id = rec.id THEN Save(d, rec, mod) ELSE d : d \in docs}

\* await record.save(); return {totalHits: record.totalHits, resetTime: record.resetTime}
IncrementSave(p, down) ==
  LET c == calls[p]
      coll == Model(c.pol) IN
  /\ c.pc = "inc_save"
  /\ IF down
       THEN /\ Finish(p, Returned(c, Fallback(c), "store"))
            /\ UNCHANGED db
       ELSE IF ~Found(coll, c.key, c.record)
         THEN /\ Finish(p, Returned(c, Fallback(c), "notfound"))
              /\ UNCHANGED db
         ELSE /\ db' = [db EXCEPT ![coll] = Updated(@, c.record, c.mod)]
              /\ Finish(p, Returned(c, [totalHits |-> c.record.totalHits,
                                        resetTime |-> c.record.resetTime], "none"))
  /\ UNCHANGED <<clock, budget>>
  /\ Track

\* ---------------------------------------------------- MongoStore.decrement
\* if (record && record.totalHits > 0) { record.totalHits -= 1; ... }
RefundableAny(doc) == doc # Null
Refundable(doc) == doc # Null /\ doc.totalHits > 0

\* const record = await this.model.findOne({ key })  ...  up to the next await
DecrementFindOne(p, pol, key, down) ==
  LET doc == store[Model(pol)][key]
      c == [NoCall EXCEPT !.op = "decrement", !.pol = pol, !.key = key,
                          !.now = clock,
                          !.found = IF down THEN Null ELSE doc] IN
  /\ Begin(p,
       IF down THEN Done(c, Null, "store")
       ELSE IF Refundable(doc)
         THEN [c EXCEPT !.pc = "dec_save",
                        !.record = Doc(doc.id, doc.totalHits - 1, doc.resetTime),
                        !.mod = {"totalHits"}]
         ELSE Done(c, Null, "none"),
       pol, {key})
  /\ UNCHANGED <<clock, db>>
  /\ UNCHANGED hist

\* await record.save()
DecrementSave(p, down) ==
  LET c == calls[p]
      coll == Model(c.pol) IN
  /\ c.pc = "dec_save"
  /\ IF down
       THEN /\ Finish(p, Done(c, Null, "store"))
            /\ UNCHANGED db
       ELSE IF ~Found(coll, c.key, c.record)
         THEN /\ Finish(p, Done(c, Null, "notfound"))
              /\ UNCHANGED db
         ELSE /\ db' = [db EXCEPT ![coll] = Updated(@, c.record, c.mod)]
              /\ Finish(p, Done(c, Null, "none"))
  /\ UNCHANGED <<clock, budget>>
  /\ UNCHANGED hist

\* ----------------------------------------------------- MongoStore.resetKey
\* deleteOne({ key }) on the documents of a collection
DeleteNone(docs, key) == docs
DeleteOne(docs, key) ==
  IF WithKey(docs, key) = {} THEN docs ELSE docs \ {First(WithKey(docs, key))}

\* await this.model.deleteOne({ key })
ResetKey(p, pol, key, down) ==
  LET c == [NoCall EXCEPT !.op = "resetKey", !.pol = pol, !.key = key,
                          !.now = clock,
                          !.found = IF down THEN Null ELSE store[Model(pol)][key]] IN
  /\ Begin(p, Done(c, Null, IF down THEN "store" ELSE "none"), pol, {key})
  /\ db' = IF down THEN db
           ELSE [db EXCEPT ![Model(pol)] = DeleteOne(@, key)]
  /\ UNCHANGED clock
  /\ UNCHANGED hist

\* ---------------------------------------------------------- MongoStore.get
\* if (now >= record.resetTime)
StaleStrict(doc, now) == now > doc.resetTime
Stale(doc, now) == now >= doc.resetTime

\* return { totalHits: record.totalHits, resetTime: record.resetTime }
ProbeId(doc) == [totalHits |-> doc.id, resetTime |-> doc.resetTime]
Probe(doc) == [totalHits |-> doc.totalHits, resetTime |-> doc.resetTime]

\* const record = await this.model.findOne({ key }); ... const now = new Date()
GetFindOne(p, pol, key, down) ==
  LET doc == store[Model(pol)][key]
      c == [NoCall EXCEPT !.op = "get", !.pol = pol, !.key = key, !.now = clock,
                          !.found = IF down THEN Null ELSE doc] IN
  /\ Begin(p,
       IF down THEN Done(c, Null, "store")
       ELSE IF doc = Null THEN Done(c, Null, "none")
       ELSE IF Stale(doc, clock)
         THEN [c EXCEPT !.pc = "get_deleteOne", !.record = doc]
         ELSE Done(c, Probe(doc), "none"),
       pol, {key})
  /\ UNCHANGED <<clock, db>>
  /\ UNCHANGED hist

\* await this.model.deleteOne({ key }); return undefined
GetDeleteOne(p, down) ==
  LET c == calls[p]
      coll == Model(c.pol) IN
  /\ c.pc = "get_deleteOne"
  /\ IF down
       THEN /\ Finish(p, Done(c, Null, "store"))
            /\ UNCHANGED db
       ELSE /\ db' = [db EXCEPT ![coll] = DeleteOne(@, c.key)]
            /\ Finish(p, Done(c, Null, "none"))
  /\ UNCHANGED <<clock, budget>>
  /\ UNCHANGED hist

\* ------------------------------------------------------ MongoStore.cleanup
\* const now = new Date()
CleanupStart(p, pol) ==
  /\ Begin(p,
       [NoCall EXCEPT !.pc = "cleanup_deleteMany", !.op = "cleanup", !.pol = pol,
                      !.now = clock],
       pol, Keys)
  /\ UNCHANGED <<clock, db>>
  /\ UNCHANGED hist

\* deleteMany({ resetTime: { $lte: now } })
ExpiredStrict(doc, now) == doc # Null /\ doc.resetTime < now
Expired(doc, now) == doc # Null /\ doc.resetTime <= now

\* await this.model.deleteMany({ resetTime: { $lte: now } })
CleanupDeleteMany(p, down) ==
  LET c == calls[p]
      coll == Model(c.pol) IN
  /\ c.pc = "cleanup_deleteMany"
  /\ IF down
       THEN /\ Finish(p, Done(c, Null, "store"))
            /\ UNCHANGED db
       ELSE /\ db' = [db EXCEPT ![coll] = {d \in @ : ~Expired(d, c.now)}]
            /\ Finish(p, Done([c EXCEPT !.deleted = Cardinality(
                             {d \in db[coll] : Expired(d, c.now)})],
                           Null, "none"))
  /\ UNCHANGED <<clock, budget>>
  /\ UNCHANGED hist

\* ------------------------------------------------------------ environment
\* resetTime: {index: {expireAfterSeconds: 0}}: MongoDB's TTL monitor removes a
\* document some time after its resetTime has passed
TtlReap(pol, key) ==
  LET coll == Model(pol) IN
  /\ \E d \in WithKey(db[coll], key) : Expired(d, clock)
  /\ db' = [db EXCEPT ![coll] =
              {d \in @ : ~(d.key = key /\ Expired(d, clock))}]
  /\ calls' = [q \in Procs |->
                 IF OnKey(calls[q], pol, key)
                   THEN [calls[q] EXCEPT !.overlapped = TRUE,
                                         !.by = @ \cup {"ttl"}]
                   ELSE calls[q]]
  /\ last' = NoCall
  /\ Shift
  /\ UNCHANGED <<reqs, served, data, ctl, ans>>
  /\ UNCHANGED <<clock, hist, budget>>

Tick ==
  /\ clock < MaxTicks * TickMs
  /\ clock' = clock + TickMs
  /\ last' = NoCall
  /\ Shift
  /\ UNCHANGED <<reqs, served, data, ctl, ans>>
  /\ UNCHANGED <<db, calls, budget>>
  /\ Track

\* ------------------------------------------------------- the request pipeline
\* the client sends a request to a route
Receive(p, t, cred) ==
  /\ reqs[p] = NoReq
  /\ ~InFlight(calls[p])
  /\ budget > 0
  /\ reqs' = [reqs EXCEPT ![p] = Req(t, cred)]
  /\ last' = NoCall
  /\ Shift
  /\ UNCHANGED <<clock, db, calls, hist, budget, served, data, ctl, ans>>

\* the next middleware of the request is a limiter: it asks its store to
\* count the request (the steps of increment follow)
LimiterStage(p) ==
  LET r == reqs[p]
      m == Upcoming(r) IN
  /\ r # NoReq
  /\ IsLimiter(m)
  /\ IncrementStart(p, Limiters[m], KeyGenerator("ip1", r.target))

\* the next middleware of the request is authorize
AuthorizeStage(p, down) ==
  LET r == reqs[p]
      r1 == [r EXCEPT !.entered = @ + 1]
      resp == Authorize(r.cred, down) IN
  /\ r # NoReq
  /\ ~InFlight(calls[p])
  /\ Upcoming(r) = "authorize"
  /\ IF resp = Null
       THEN /\ reqs' = [reqs EXCEPT ![p] = r1]
            /\ served' = served
       ELSE /\ reqs' = [reqs EXCEPT ![p] = NoReq]
            /\ served' = Answer(r1, resp)
  /\ last' = NoCall
  /\ Shift
  /\ UNCHANGED <<clock, db, calls, hist, budget, data, ctl, ans>>

\* the next middleware of the request is the handler of the route
HandlerStage(p) ==
  LET r == reqs[p]
      m == Upcoming(r)
      r1 == [r EXCEPT !.entered = @ + 1] IN
  /\ r # NoReq
  /\ ~InFlight(calls[p])
  /\ m # "none" /\ m # "authorize" /\ ~IsLimiter(m)
  /\ reqs' = [reqs EXCEPT ![p] = NoReq]
  /\ served' = Answer(r1, Handle(m))
  /\ last' = NoCall
  /\ Shift
  /\ UNCHANGED <<clock, db, calls, hist, budget, data, ctl, ans>>

\* ------------------------------------------------------------- user accounts
\* strings are sequences of characters; undefined is none of them
Undefined == <<"undefined">>

RECURSIVE TrimStart(_)
TrimStart(s) == IF s # <<>> /\ Head(s) = " " THEN TrimStart(Tail(s)) ELSE s

RECURSIVE TrimEnd(_)
TrimEnd(s) ==
  IF s # <<>> /\ s[Len(s)] = " " THEN TrimEnd(SubSeq(s, 1, Len(s) - 1)) ELSE s

\* String.prototype.trim
Trim(s) == TrimEnd(TrimStart(s))

\* String.prototype.toLowerCase, on the letters that occur
ToLowerCase(s) ==
  [i \in 1..Len(s) |-> IF s[i] = "A" THEN "a" ELSE IF s[i] = "B" THEN "b" ELSE s[i]]

\* the user schema (user.model.js): email {lowercase: true, trim: true,
\* unique: true}, name {trim: true, minLength: 2}; the setters run on the
\* values that are stored and on the values of a query
Email(s) == ToLowerCase(Trim(s))

Name(s) == Trim(s)

\* bcrypt.hash(password, salt)
Hash(password) == <<"$2a$10$">> \o password

\* documents of the users and subscriptions collections
User(id, name, email, password) ==
  [id |-> id, name |-> name, email |-> email, password |-> password]

Subscription(id, user) == [id |-> id, user |-> user]

users == data.users
subscriptions == data.subscriptions

\* a string that is not an ObjectId makes findById throw a CastError
InvalidId == 0 - 1
IsObjectId(id) == id > 0

\* User.findById(id): the document, or null
FindById(id) ==
  IF \E u \in users : u.id = id THEN CHOOSE u \in users : u.id = id ELSE Null

\* User.findOne({ email }): the document, or null
FindByEmail(email) ==
  IF \E u \in users : u.email = Email(email)
    THEN CHOOSE u \in users : u.email = Email(email)
    ELSE Null

\* the unique index on email: a document may take the email when no other has it
EmailFree(id, email) == \A u \in users : u.email = email => u.id = id

\* the validators of the schema on the fields given (Undefined: not given)
Valid(doc) ==
  /\ doc.name # Undefined => Len(Name(doc.name)) >= 2
  /\ doc.email # Undefined => Len(Email(doc.email)) >= 1

\* what a controller did with the request: next(error), or res.status().json();
\* status 0: the error carries no statusCode
Err(status, text) ==
  [via |-> "next", status |-> status, message |-> text, data |-> Null]

Res(status, text, doc) ==
  [via |-> "res", status |-> status, message |-> text, data |-> doc]

NoOut == [via |-> "none", status |-> 0, message |-> "", data |-> Null]

CastError == Err(0, "Cast to ObjectId failed")
ValidationError == Err(0, "User validation failed")
DuplicateKey == Err(0, "E11000 duplicate key error")
StoreError == Err(0, "Database error")

\* toObject() without the password
Public(u) == [id |-> u.id, name |-> u.name, email |-> u.email]

\* req.body, and the updateData of updateUser
NoBody == [name |-> Undefined, email |-> Undefined, password |-> Undefined]

\* the call of a controller: where it is, its req.params.id and req.body, the
\* user its findById returned, its updateData, what it did with the request,
\* the collections when it was called, and whether another call ran meanwhile
NoCtl ==
  [pc |-> "idle", op |-> "none", id |-> 0, body |-> NoBody, user |-> Null,
   updateData |-> NoBody, out |-> NoOut, before |-> Null, overlapped |-> FALSE]

Running(c) == c.pc # "idle"

CtlDone(c, out) == [c EXCEPT !.pc = "done", !.out = out]

\* no user, no subscription, no call of a controller
NoUsers ==
  /\ data = [users |-> {}, subscriptions |-> {}, oids |-> 0]
  /\ ctl = [p \in Procs |-> NoCtl]
  /\ ans = NoCtl

Quiet == UNCHANGED <<clock, db, calls, last, prev, hist, reqs, served>>

\* caller p calls a controller, which runs to its first await (c) or returns
CtlBegin(p, c) ==
  LET os == {q \in Procs \ {p} : Running(ctl[q])}
      c1 == [c EXCEPT !.before = data, !.overlapped = (os # {})] IN
  /\ ~Running(ctl[p])
  /\ ~InFlight(calls[p])
  /\ budget > 0
  /\ budget' = budget - 1
  /\ ctl' = [q \in Procs |->
               IF q = p THEN (IF c.pc = "done" THEN NoCtl ELSE c1)
               ELSE IF q \in os THEN [ctl[q] EXCEPT !.overlapped = TRUE]
               ELSE ctl[q]]
  /\ ans' = IF c.pc = "done" THEN c1 ELSE NoCtl
  /\ Quiet

\* the call of p goes on to its next await (c), or returns
CtlStep(p, c) ==
  /\ ctl' = [ctl EXCEPT ![p] = IF c.pc = "done" THEN NoCtl ELSE c]
  /\ ans' = IF c.pc = "done" THEN c ELSE NoCtl
  /\ UNCHANGED budget
  /\ Quiet

\* createUser: if (!name || !email || !password) (controllers/user.controller.js)
IncompleteUndefinedOnly(body) ==
  body.name = Undefined \/ body.email = Undefined \/ body.password = Undefined
Incomplete(body) ==
  \/ body.name = Undefined \/ body.email = Undefined \/ body.password = Undefined
  \/ body.name = <<>> \/ body.email = <<>> \/ body.password = <<>>

\* createUser: ... || name.trim() === '' || email.trim() === '' ||
\* password.trim() === '' (the later revision of the controller)
IncompleteOrBlank(body) ==
  \/ Incomplete(body)
  \/ Trim(body.name) = <<>> \/ Trim(body.email) = <<>> \/ Trim(body.password) = <<>>

\* the two revisions of createUser's validation
Revisions == {"user.controller.js", "part_005"}

Refused(rev, body) ==
  IF rev = "user.controller.js" THEN Incomplete(body) ELSE IncompleteOrBlank(body)

\* createUser up to its first await
CreateUser(p, rev, body) ==
  LET c == [NoCtl EXCEPT !.op = "createUser", !.body = body] IN
  /\ CtlBegin(p,
       IF Refused(rev, body)
         THEN CtlDone(c, Err(400, "Name, email, and password are required"))
       ELSE IF rev = "part_005" /\ Len(body.password) < 6
         THEN CtlDone(c, Err(400, "Password must be at least 6 characters long"))
       ELSE [c EXCEPT !.pc = "cu_findOne"])
  /\ UNCHANGED data

\* const existingUser = await User.findOne({ email }); the awaits of bcrypt
\* follow before the next step
CreateUserFindOne(p, down) ==
  LET c == ctl[p] IN
  /\ c.pc = "cu_findOne"
  /\ CtlStep(p,
       IF down THEN CtlDone(c, StoreError)
       ELSE IF FindByEmail(c.body.email) # Null
         THEN CtlDone(c, Err(409, "User with this email already exists"))
       ELSE [c EXCEPT !.pc = "cu_create"])
  /\ UNCHANGED data

\* const newUser = await User.create({name, email, password: hashedPassword});
\* res.status(201).json(...)
CreateUserCreate(p, down) ==
  LET c == ctl[p]
      id == data.oids + 1
      u == User(id, Name(c.body.name), Email(c.body.email), Hash(c.body.password))
      ok == ~down /\ Valid(c.body) /\ EmailFree(id, u.email) IN
  /\ c.pc = "cu_create"
  /\ CtlStep(p,
       IF down THEN CtlDone(c, StoreError)
       ELSE IF ~Valid(c.body) THEN CtlDone(c, ValidationError)
       ELSE IF ~EmailFree(id, u.email) THEN CtlDone(c, DuplicateKey)
       ELSE CtlDone(c, Res(201, "User created successfully", Public(u))))
  /\ data' = IF ok THEN [data EXCEPT !.users = @ \cup {u}, !.oids = id] ELSE data

\* updateUser up to its first await
UpdateUser(p, id, body) ==
  /\ CtlBegin(p, [NoCtl EXCEPT !.pc = "uu_findById", !.op = "updateUser",
                               !.id = id, !.body = body])
  /\ UNCHANGED data

\* updateUser from `if (password !== undefined)` to its next await
UpdatePassword(c) ==
  LET password == c.body.password
      updateData == IF password # Undefined
                      THEN [c.updateData EXCEPT !.password = Hash(password)]
                      ELSE c.updateData IN
  IF password # Undefined /\ Len(password) < 6
    THEN CtlDone(c, Err(400, "Password must be at least 6 characters long"))
  ELSE IF updateData = NoBody
    THEN CtlDone(c, Err(400, "No valid fields provided for update"))
  ELSE [c EXCEPT !.pc = "uu_update", !.updateData = updateData]

\* const user = await User.findById(id), and on to the next await
UpdateUserFindById(p, down) ==
  LET c == ctl[p]
      user == FindById(c.id)
      named == [c EXCEPT !.user = user, !.updateData.name = c.body.name] IN
  /\ c.pc = "uu_findById"
  /\ CtlStep(p,
       IF ~IsObjectId(c.id) THEN CtlDone(c, CastError)
       ELSE IF down THEN CtlDone(c, StoreError)
       ELSE IF user = Null THEN CtlDone(c, Err(404, "User not found"))
       ELSE IF c.body.email # Undefined /\ c.body.email # user.email
         THEN [named EXCEPT !.pc = "uu_findOne"]
       ELSE UpdatePassword(named))
  /\ UNCHANGED data

\* const existingUser = await User.findOne({ email }), and on to the next await
UpdateUserFindOne(p, down) ==
  LET c == ctl[p] IN
  /\ c.pc = "uu_findOne"
  /\ CtlStep(p,
       IF down THEN CtlDone(c, StoreError)
       ELSE IF FindByEmail(c.body.email) # Null
         THEN CtlDone(c, Err(409, "Email already in use by another user"))
       ELSE UpdatePassword([c EXCEPT !.updateData.email = c.body.email]))
  /\ UNCHANGED data

\* the document after {$set: updateData}
SetFields(u, updateData) ==
  User(u.id,
       IF updateData.name # Undefined THEN Name(updateData.name) ELSE u.name,
       IF updateData.email # Undefined THEN Email(updateData.email) ELSE u.email,
       IF updateData.password # Undefined THEN updateData.password ELSE u.password)

\* const updatedUser = await User.findByIdAndUpdate(id, updateData,
\* {new: true, runValidators: true}).select('-password'); res.status(200).json(...)
UpdateUserUpdate(p, down) ==
  LET c == ctl[p]
      old == FindById(c.id)
      new == IF old = Null THEN Null ELSE SetFields(old, c.updateData)
      ok == /\ ~down /\ Valid(c.updateData)
            /\ old # Null /\ EmailFree(c.id, new.email) IN
  /\ c.pc = "uu_update"
  /\ CtlStep(p,
       IF down THEN CtlDone(c, StoreError)
       ELSE IF ~Valid(c.updateData) THEN CtlDone(c, ValidationError)
       ELSE IF old = Null
         THEN CtlDone(c, Res(200, "User updated successfully", Null))
       ELSE IF ~EmailFree(c.id, new.email) THEN CtlDone(c, DuplicateKey)
       ELSE CtlDone(c, Res(200, "User updated successfully", Public(new))))
  /\ data' = IF ok THEN [data EXCEPT !.users = (@ \ {old}) \cup {new}] ELSE data

\* deleteUser up to its first await
DeleteUser(p, id) ==
  /\ CtlBegin(p, [NoCtl EXCEPT !.pc = "du_findById", !.op = "deleteUser", !.id = id])
  /\ UNCHANGED data

\* const user = await User.findById(id)
DeleteUserFindById(p, down) ==
  LET c == ctl[p]
      user == FindById(c.id) IN
  /\ c.pc = "du_findById"
  /\ CtlStep(p,
       IF ~IsObjectId(c.id) THEN CtlDone(c, CastError)
       ELSE IF down THEN CtlDone(c, StoreError)
       ELSE IF user = Null THEN CtlDone(c, Err(404, "User not found"))
       ELSE [c EXCEPT !.pc = "du_deleteMany", !.user = user])
  /\ UNCHANGED data

\* Subscription.deleteMany({ user: id }): the documents that stay
DeleteManyNone(subs, id) == subs
DeleteMany(subs, id) == {s \in subs : s.user # id}

\* await Subscription.deleteMany({ user: id })
DeleteUserDeleteMany(p, down) ==
  LET c == ctl[p] IN
  /\ c.pc = "du_deleteMany"
  /\ CtlStep(p,
       IF down THEN CtlDone(c, StoreError)
       ELSE [c EXCEPT !.pc = "du_delete"])
  /\ data' = IF down THEN data
             ELSE [data EXCEPT !.subscriptions = DeleteMany(@, c.id)]

\* await User.findByIdAndDelete(id); res.status(200).json(...)
DeleteUserDelete(p, down) ==
  LET c == ctl[p] IN
  /\ c.pc = "du_delete"
  /\ CtlStep(p,
       IF down THEN CtlDone(c, StoreError)
       ELSE CtlDone(c, Res(200, "User and associated subscriptions deleted successfully",
                           Null)))
  /\ data' = IF down THEN data
             ELSE [data EXCEPT !.users = {u \in @ : u.id # c.id}]

\* ---------------------------------------------------------- specifications
\* the counts a key can have after n consecutive requests sent at time 0
SeedHits(pol) == {max[pol] - 1, max[pol]}

\* the state after n consecutive requests for (pol, key), all sent at time 0
Seeded(pol, key, n) ==
  db = [coll \in Collections |->
          IF coll = Model(pol) THEN {Stored(1, key, n, windowMs[pol])} ELSE {}]

Empty ==
  db = [coll \in Collections |-> {}]

\* the store of one limiter (auth) and two clients, one of which may have
\* sent 1 or max - 1 requests already; any store method is called, by two
\* callers at a time
Init ==
  /\ clock = 0
  /\ reqs = [p \in Procs |-> NoReq]
  /\ served = NoServed
  /\ NoUsers
  /\ calls = [p \in Procs |-> NoCall]
  /\ last = NoCall
  /\ prev = Untracked
  /\ hist = Untracked
  /\ budget = MaxCalls
  /\ \/ Empty
     \/ \E n \in {1, max["auth"] - 1} : Seeded("auth", "ip1", n)

Next ==
  \/ \E p \in Procs, key \in Keys : IncrementStart(p, "auth", key)
  \/ \E p \in Procs, down \in BOOLEAN : IncrementFindOne(p, down)
  \/ \E p \in Procs, down \in BOOLEAN : IncrementCreate(p, down)
  \/ \E p \in Procs, down \in BOOLEAN : IncrementSave(p, down)
  \/ \E p \in Procs, key \in Keys, down \in BOOLEAN :
       DecrementFindOne(p, "auth", key, down)
  \/ \E p \in Procs, down \in BOOLEAN : DecrementSave(p, down)
  \/ \E p \in Procs, key \in Keys, down \in BOOLEAN :
       ResetKey(p, "auth", key, down)
  \/ \E p \in Procs, key \in Keys, down \in BOOLEAN :
       GetFindOne(p, "auth", key, down)
  \/ \E p \in Procs, down \in BOOLEAN : GetDeleteOne(p, down)
  \/ \E p \in Procs : CleanupStart(p, "auth")
  \/ \E p \in Procs, down \in BOOLEAN : CleanupDeleteMany(p, down)
  \/ \E key \in Keys : TtlReap("auth", key)
  \/ Tick

Spec == Init /\ [][Next]_vars

\* the store of one limiter (auth) and two clients, called by one caller: the
\* calls follow each other; any store method is called for the first client,
\* increment for both, and any operation may fail
InitSeq ==
  /\ clock = 0
  /\ reqs = [p \in Procs |-> NoReq]
  /\ served = NoServed
  /\ NoUsers
  /\ calls = [p \in Procs |-> NoCall]
  /\ last = NoCall
  /\ prev = NoCall
  /\ hist = Untracked
  /\ budget = MaxCallsSeq
  /\ \/ Empty
     \/ \E n \in {1, max["auth"] - 1} : Seeded("auth", "ip1", n)

NextSeq ==
  \/ \E key \in Keys : IncrementStart("p1", "auth", key)
  \/ \E down \in BOOLEAN : IncrementFindOne("p1", down)
  \/ \E down \in BOOLEAN : IncrementCreate("p1", down)
  \/ \E down \in BOOLEAN : IncrementSave("p1", down)
  \/ \E down \in BOOLEAN : DecrementFindOne("p1", "auth", "ip1", down)
  \/ \E down \in BOOLEAN : DecrementSave("p1", down)
  \/ \E down \in BOOLEAN : ResetKey("p1", "auth", "ip1", down)
  \/ \E down \in BOOLEAN : GetFindOne("p1", "auth", "ip1", down)
  \/ \E down \in BOOLEAN : GetDeleteOne("p1", down)
  \/ CleanupStart("p1", "auth")
  \/ \E down \in BOOLEAN : CleanupDeleteMany("p1", down)
  \/ \E key \in Keys : TtlReap("auth", key)
  \/ Tick

SpecSeq == InitSeq /\ [][NextSeq]_vars

\* the requests of one client to the auth limiter, by two callers at a time,
\* with resetKey and cleanup calls and the TTL monitor; any operation may fail,
\* and every operation that a call waits for returns or throws in the end
InitLive ==
  /\ clock = 0
  /\ reqs = [p \in Procs |-> NoReq]
  /\ served = NoServed
  /\ NoUsers
  /\ calls = [p \in Procs |-> NoCall]
  /\ last = NoCall
  /\ prev = Untracked
  /\ hist = Untracked
  /\ budget = MaxCallsLive
  /\ \/ Empty
     \/ \E n \in {1, max["auth"]} : Seeded("auth", "ip1", n)

\* the store operation that the increment call of p waits for returns or throws
IncrementStep(p) ==
  \E down \in BOOLEAN :
    \/ IncrementFindOne(p, down)
    \/ IncrementCreate(p, down)
    \/ IncrementSave(p, down)

NextLive ==
  \/ \E p \in Procs : IncrementStart(p, "auth", "ip1")
  \/ \E p \in Procs, down \in BOOLEAN : IncrementFindOne(p, down)
  \/ \E p \in Procs, down \in BOOLEAN : IncrementCreate(p, down)
  \/ \E p \in Procs, down \in BOOLEAN : IncrementSave(p, down)
  \/ \E p \in Procs, down \in BOOLEAN : ResetKey(p, "auth", "ip1", down)
  \/ \E p \in Procs : CleanupStart(p, "auth")
  \/ \E p \in Procs, down \in BOOLEAN : CleanupDeleteMany(p, down)
  \/ TtlReap("auth", "ip1")
  \/ Tick

SpecLive ==
  /\ InitLive
  /\ [][NextLive]_vars
  /\ \A p \in Procs : WF_vars(IncrementStep(p))

\* the four limiters and their stores with the requests of one client; any
\* store method is called, one call at a time
InitLimiters ==
  /\ clock = 0
  /\ reqs = [p \in Procs |-> NoReq]
  /\ served = NoServed
  /\ NoUsers
  /\ calls = [p \in Procs |-> NoCall]
  /\ last = NoCall
  /\ prev = Untracked
  /\ hist = Untracked
  /\ budget = MaxCallsLimiters
  /\ \/ Empty
     \/ \E pol \in Policies : \E n \in SeedHits(pol) : Seeded(pol, "ip1", n)

NextLimiters ==
  \/ \E pol \in Policies : IncrementStart("p1", pol, "ip1")
  \/ \E down \in BOOLEAN : IncrementFindOne("p1", down)
  \/ \E down \in BOOLEAN : IncrementCreate("p1", down)
  \/ \E down \in BOOLEAN : IncrementSave("p1", down)
  \/ \E pol \in Policies, down \in BOOLEAN : DecrementFindOne("p1", pol, "ip1", down)
  \/ \E down \in BOOLEAN : DecrementSave("p1", down)
  \/ \E pol \in Policies, down \in BOOLEAN : ResetKey("p1", pol, "ip1", down)
  \/ \E pol \in Policies, down \in BOOLEAN : GetFindOne("p1", pol, "ip1", down)
  \/ \E down \in BOOLEAN : GetDeleteOne("p1", down)
  \/ \E pol \in Policies : CleanupStart("p1", pol)
  \/ \E down \in BOOLEAN : CleanupDeleteMany("p1", down)
  \/ \E pol \in Policies : TtlReap(pol, "ip1")
  \/ Tick

SpecLimiters == InitLimiters /\ [][NextLimiters]_vars

\* the auth limiter alone: the requests of one client, by two callers at a
\* time; the store does not fail
InitAuth ==
  /\ clock = 0
  /\ reqs = [p \in Procs |-> NoReq]
  /\ served = NoServed
  /\ NoUsers
  /\ calls = [p \in Procs |-> NoCall]
  /\ last = NoCall
  /\ prev = Untracked
  /\ hist = NoHist
  /\ budget = MaxRequests
  /\ Empty

NextAuth ==
  \/ \E p \in Procs : IncrementStart(p, "auth", "ip1")
  \/ \E p \in Procs : IncrementFindOne(p, FALSE)
  \/ \E p \in Procs : IncrementCreate(p, FALSE)
  \/ \E p \in Procs : IncrementSave(p, FALSE)
  \/ Tick

SpecAuth == InitAuth /\ [][NextAuth]_vars

\* the three routers with the requests of one client inside one window, one
\* after another; the client may have sent max - 1 or max requests to one of
\* the limiters already; any operation of a store may fail
Sendable ==
  {<<t, cred>> \in Targets \X Credentials :
     cred = "none" \/ \E i \in 1..Len(t.route.stack) : t.route.stack[i] = "authorize"}

InitRoutes ==
  /\ clock = 0
  /\ reqs = [p \in Procs |-> NoReq]
  /\ served = NoServed
  /\ NoUsers
  /\ calls = [p \in Procs |-> NoCall]
  /\ last = NoCall
  /\ prev = Untracked
  /\ hist = Untracked
  /\ budget = MaxRequestsRoutes
  /\ \/ Empty
     \/ \E pol \in {"auth", "user", "subscription"} :
          \E n \in SeedHits(pol) : Seeded(pol, "ip1", n)

NextRoutes ==
  \/ \E s \in Sendable : Receive("p1", s[1], s[2])
  \/ LimiterStage("p1")
  \/ \E down \in BOOLEAN : IncrementFindOne("p1", down)
  \/ \E down \in BOOLEAN : IncrementCreate("p1", down)
  \/ \E down \in BOOLEAN : IncrementSave("p1", down)
  \/ \E down \in BOOLEAN : AuthorizeStage("p1", down)
  \/ HandlerStage("p1")

SpecRoutes == InitRoutes /\ [][NextRoutes]_vars

\* the user controllers called by two callers at a time, on one user with two
\* subscriptions or on two users with subscriptions; any operation of the
\* database may fail
Names == {Undefined, <<>>, <<" ">>, <<"J", "o">>}
Emails == {Undefined, <<>>, <<"a">>, <<"A">>, <<"b">>}
Passwords == {Undefined, <<>>, <<"p">>, <<"s", "e", "c", "r", "e", "t">>}


Secret == <<"s", "e", "c", "r", "e", "t">>

\* the bodies sent to createUser: complete ones, and ones with one field
\* missing, empty, blank or too short
CreateBodies ==
  [name : Names, email : {<<"a">>}, password : {Secret}]
  \cup [name : {<<"J", "o">>}, email : Emails, password : {Secret}]
  \cup [name : {<<"J", "o">>}, email : {<<"a">>}, password : Passwords]

\* the bodies sent to updateUser: no field, or one field
UpdateBodies ==
  [name : {Undefined}, email : Emails \ {<<>>}, password : {Undefined}]
  \cup [name : {<<"J", "o">>}, email : {Undefined}, password : {Undefined}]
  \cup [name : {Undefined}, email : {Undefined}, password : {<<"p">>, Secret}]

Ids == {1, 2, InvalidId}

John == User(1, <<"J", "o">>, <<"a">>, Hash(Secret))
Jane == User(2, <<"J", "a">>, <<"b">>, Hash(Secret))

InitUsers ==
  /\ clock = 0
  /\ reqs = [p \in Procs |-> NoReq]
  /\ served = NoServed
  /\ calls = [p \in Procs |-> NoCall]
  /\ last = NoCall
  /\ prev = Untracked
  /\ hist = Untracked
  /\ budget = MaxCallsUsers
  /\ Empty
  /\ ctl = [p \in Procs |-> NoCtl]
  /\ ans = NoCtl
  /\ \/ data = [users |-> {John},
                subscriptions |-> {Subscription(1, 1), Subscription(2, 1)},
                oids |-> 1]
     \/ data = [users |-> {John, Jane},
                subscriptions |-> {Subscription(1, 1), Subscription(2, 1),
                                   Subscription(3, 2)},
                oids |-> 2]

NextUsers ==
  \/ \E p \in Procs, rev \in Revisions, body \in CreateBodies : CreateUser(p, rev, body)
  \/ \E p \in Procs, down \in BOOLEAN : CreateUserFindOne(p, down)
  \/ \E p \in Procs, down \in BOOLEAN : CreateUserCreate(p, down)
  \/ \E p \in Procs, id \in Ids, body \in UpdateBodies : UpdateUser(p, id, body)
  \/ \E p \in Procs, down \in BOOLEAN : UpdateUserFindById(p, down)
  \/ \E p \in Procs, down \in BOOLEAN : UpdateUserFindOne(p, down)
  \/ \E p \in Procs, down \in BOOLEAN : UpdateUserUpdate(p, down)
  \/ \E p \in Procs, id \in Ids : DeleteUser(p, id)
  \/ \E p \in Procs, down \in BOOLEAN : DeleteUserFindById(p, down)
  \/ \E p \in Procs, down \in BOOLEAN : DeleteUserDeleteMany(p, down)
  \/ \E p \in Procs, down \in BOOLEAN : DeleteUserDelete(p, down)

SpecUsers == InitUsers /\ [][NextUsers]_vars

\* ------------------------------------------------------------------ claims
Min(a, b) == IF a < b THEN a ELSE b

NoneInFlight == \A p \in Procs : ~InFlight(calls[p])

AuthDoc == store["auth_rate_limits"]["ip1"]

\* C1: when all of the increment calls for a key, made inside one window with no
\* failure of the store, have returned, the stored totalHits is the number of calls
C1_NoLostUpdates ==
  (NoneInFlight /\ hist.n >= 1 /\ ~hist.late) =>
    (AuthDoc # Null /\ AuthDoc.totalHits = hist.n)

\* C2: of the requests of one client that fall inside one window, the auth
\* limiter forwards at most max = 5, in any interleaving
C2_CeilingUnderConcurrency ==
  ~hist.late => hist.fwd <= 5

\* C3: of consecutive requests inside one window, for a key with no record, the
\* k-th is forwarded when k <= 5 and answered with 429 when k > 5
C3_SequentialOrder ==
  (last # NoCall /\ ~hist.overlap /\ ~hist.late) =>
    /\ last.out = IF hist.n <= 5 THEN "forwarded" ELSE "rejected"
    /\ hist.n <= 5 => last.resp = Null
    /\ hist.n > 5 => last.resp # Null /\ last.resp.status = 429
    /\ hist.fwd = Min(hist.n, 5)
    /\ hist.rej = hist.n - Min(hist.n, 5)

\* the sixth of six consecutive requests is the first one rejected
C3_SixthRejected ==
  /\ last # NoCall /\ ~hist.overlap /\ ~hist.late
  /\ hist.n = 6 /\ hist.fwd = 5 /\ hist.rej = 1
  /\ last.out = "rejected"

\* C4: a request is rejected if and only if the totalHits that increment
\* returned is greater than the max of its limiter (general 100, auth 5,
\* subscription 200, user 50); a rejected request gets 429 with the body
\* {success: false, error: <message>, retryAfter: '15 minutes'} and is not
\* forwarded; every other request is forwarded
C4_RejectionRule ==
  last.op = "increment" =>
    LET over == last.ret.totalHits >
                  (CASE last.pol = "general" -> 100
                     [] last.pol = "auth" -> 5
                     [] last.pol = "subscription" -> 200
                     [] last.pol = "user" -> 50) IN
    /\ (last.out = "rejected") <=> over
    /\ (last.out = "forwarded") <=> ~over
    /\ over => last.resp =
                 [status |-> 429,
                  body |-> [success |-> FALSE, error |-> message[last.pol],
                            retryAfter |-> "15 minutes"]]
    /\ ~over => last.resp = Null

\* a subscription request that returns totalHits = 201 is rejected
C4_RejectedOverMax ==
  /\ last.op = "increment" /\ last.pol = "subscription"
  /\ last.ret.totalHits = 201
  /\ last.out = "rejected"

\* C5: a request whose increment caught an error raised by the store (a failed
\* operation, E11000 or DocumentNotFoundError) is forwarded and gets no 429,
\* whatever count is stored; increment returns a value (it throws nothing to
\* the limiter)
C5_FailOpen ==
  (last.op = "increment" /\ last.threw # "none") =>
    /\ last.ret # Null
    /\ last.out = "forwarded"
    /\ last.resp = Null

\* a request is forwarded during an outage although the stored count is over max
C5_ForwardedOverMax ==
  /\ last.op = "increment" /\ last.threw = "store" /\ last.branch = "none"
  /\ last.out = "forwarded"
  /\ LET doc == store[collectionName[last.pol]][last.key] IN
       doc # Null /\ doc.totalHits > max[last.pol]

\* C6: when a store step of increment throws (findOne, create or save), the
\* call returns {totalHits: 1, resetTime: now + windowMs}, now being the time at
\* the start of the call
C6_FallbackValue ==
  (last.op = "increment" /\ last.threw # "none") =>
    last.ret = [totalHits |-> 1, resetTime |-> last.now + 15 * 60 * 1000]

\* the save of an increment throws at a later time than the call started
C6_SaveThrewLater ==
  /\ last.op = "increment" /\ last.threw = "store"
  /\ last.branch = "count"
  /\ clock > last.now

\* C7: of consecutive increment calls inside one window, for a key with no
\* record, the k-th returns totalHits = k and the resetTime of the first call,
\* and the stored record equals what it returns
C7_SequentialCounting ==
  (last # NoCall /\ ~hist.overlap /\ ~hist.late) =>
    /\ last.ret.totalHits = hist.n
    /\ last.ret.resetTime = hist.first + 15 * 60 * 1000
    /\ AuthDoc # Null
    /\ AuthDoc.totalHits = last.ret.totalHits
    /\ AuthDoc.resetTime = last.ret.resetTime

\* the third consecutive call, made later than the first, returns 3
C7_ThirdCallLater ==
  /\ last # NoCall /\ ~hist.overlap /\ ~hist.late
  /\ hist.n = 3 /\ last.ret.totalHits = 3
  /\ last.now > hist.first

\* C8: an increment call that finds a record with now >= resetTime returns
\* totalHits = 1 and resetTime = now + windowMs; when its save does not throw and
\* nothing else acts on the key during the call, the stored record is the same
C8_WindowReset ==
  (last.op = "increment" /\ last.found # Null
     /\ last.now >= last.found.resetTime) =>
    /\ last.ret = [totalHits |-> 1, resetTime |-> last.now + 15 * 60 * 1000]
    /\ (last.threw = "none" /\ ~last.overlapped) =>
         LET doc == store[collectionName[last.pol]][last.key] IN
         /\ doc # Null
         /\ doc.totalHits = 1
         /\ doc.resetTime = last.now + 15 * 60 * 1000

\* an expired record with a count other than 1 is reset by a call that ran alone
C8_ResetFromHigherCount ==
  /\ last.op = "increment" /\ last.found # Null
  /\ last.now >= last.found.resetTime /\ last.found.totalHits > 1
  /\ last.threw = "none" /\ ~last.overlapped
  /\ last.now >= 15 * 60 * 1000

\* the limiter whose store the step of a call works on ("none": no call steps)
ActingPol ==
  IF budget' # budget
    THEN IF last' # NoCall THEN last'.pol
         ELSE LET p == CHOOSE q \in Procs : calls'[q].pc # calls[q].pc
              IN calls'[p].pol
    ELSE IF \E q \in Procs : calls'[q].pc # calls[q].pc
      THEN LET p == CHOOSE q \in Procs : calls'[q].pc # calls[q].pc
           IN calls[p].pol
      ELSE "none"

\* C9: a step of increment, decrement, resetKey, get or cleanup of one limiter's
\* store changes no record of another limiter's store
C9_Independence ==
  [][\A pol \in Policies :
       (ActingPol # "none" /\ ActingPol # pol) =>
         store'[collectionName[pol]] = store[collectionName[pol]]]_vars

\* an auth request over the ceiling is rejected while the general record of the
\* same client holds its own count
C9_AuthExhaustedGeneralOwnCount ==
  /\ last.op = "increment" /\ last.pol = "auth" /\ last.key = "ip1"
  /\ last.out = "rejected" /\ last.ret.totalHits = 6
  /\ store["general_rate_limits"]["ip1"] # Null
  /\ store["general_rate_limits"]["ip1"].totalHits = 1

\* C10: every stored record has totalHits >= 0
C10_NeverNegative ==
  \A coll \in Collections, key \in Keys :
    store[coll][key] # Null => store[coll][key].totalHits >= 0

\* two decrements that both read totalHits = 1: one has saved 0, the other is
\* about to save 0
C10_ConcurrentDecrements ==
  /\ last.op = "decrement" /\ last.threw = "none"
  /\ last.record # Null /\ last.record.totalHits = 0
  /\ store[collectionName[last.pol]][last.key] # Null
  /\ store[collectionName[last.pol]][last.key].totalHits = 0
  /\ \E q \in Procs :
       /\ calls[q].pc = "dec_save" /\ calls[q].key = last.key
       /\ calls[q].record.totalHits = 0
\* a get call that found a record with now >= resetTime, with nothing else
\* acting on the key during the call
GetExpiredAlone(c) ==
  /\ c.op = "get" /\ c.found # Null /\ c.now >= c.found.resetTime
  /\ ~c.overlapped

\* call d (an `op`) follows call c: no other call ran on the key in between
\* or meanwhile
Follows(c, d, op) ==
  /\ c # NoCall /\ d.op = op /\ d.pol = c.pol /\ d.key = c.key
  /\ ~d.overlapped

C12_ResetKeyThenIncrement ==
  (prev.op = "resetKey" /\ prev.threw = "none"
     /\ Follows(prev, last, "increment") /\ last.threw = "none") =>
    LET doc == store[collectionName[last.pol]][last.key] IN
    /\ last.ret = [totalHits |-> 1, resetTime |-> last.now + 15 * 60 * 1000]
    /\ last.branch = "create"
    /\ doc # Null
    /\ doc.totalHits = 1
    /\ doc.resetTime = last.now + 15 * 60 * 1000

\* resetKey met a live record with a count above 1, and the increment that
\* follows inside the same window starts from 1
C12_LiveRecordReset ==
  /\ prev.op = "resetKey" /\ prev.threw = "none"
  /\ prev.found # Null /\ prev.found.totalHits > 1
  /\ prev.now < prev.found.resetTime
  /\ Follows(prev, last, "increment") /\ last.threw = "none"
  /\ last.now < prev.found.resetTime
  /\ last.ret.totalHits = 1
\* a cleanup call that did not fail, with no other call and no expiry reap
\* during it
CleanupAlone(c) ==
  c.op = "cleanup" /\ c.threw = "none" /\ ~c.overlapped

\* C13: a cleanup call that does not fail leaves exactly the records that had
\* resetTime > now, each unchanged; a second cleanup at the same time changes
\* nothing
C13_CleanupExact ==
  [][CleanupAlone(last') =>
       LET coll == collectionName[last'.pol] IN
       /\ \A k \in Keys :
            store'[coll][k] =
              IF store[coll][k] # Null /\ store[coll][k].resetTime > last'.now
                THEN store[coll][k] ELSE Null
       /\ (CleanupAlone(prev') /\ prev'.pol = last'.pol
            /\ prev'.now = last'.now) => store' = store]_vars

\* a cleanup removed a record and kept a live one; the cleanup that follows at
\* the same time removes nothing
C13_SecondCleanupNoop ==
  /\ CleanupAlone(prev) /\ prev.deleted >= 1
  /\ CleanupAlone(last) /\ last.now = prev.now /\ last.deleted = 0
  /\ \E k \in Keys : LET doc == store[collectionName[last.pol]][k] IN
                        doc # Null /\ doc.resetTime > last.now
\* C14: an increment call during which only a cleanup call or the TTL monitor
\* acted on its key, the store not failing, returns what it returns when it runs
\* alone (the count continued on a live record, else 1 with a new window), and
\* the record it returned is stored as long as its window is open
C14_CleanupDuringIncrement ==
  (/\ last.op = "increment" /\ last.threw # "store"
   /\ last.by # {} /\ last.by \subseteq {"cleanup", "ttl"}) =>
    LET doc == store[collectionName[last.pol]][last.key]
        fresh == [totalHits |-> 1, resetTime |-> last.now + 15 * 60 * 1000] IN
    /\ last.ret \in
         {fresh} \cup
         (IF last.found # Null /\ last.now < last.found.resetTime
            THEN {[totalHits |-> last.found.totalHits + 1,
                   resetTime |-> last.found.resetTime]}
            ELSE {})
    /\ clock < last.ret.resetTime =>
         /\ doc # Null
         /\ doc.totalHits = last.ret.totalHits
         /\ doc.resetTime = last.ret.resetTime
\* C15: every collection holds at most one document per key
C15_KeyUniqueness ==
  \A coll \in Collections, key \in Keys :
    Cardinality(WithKey(db[coll], key)) <= 1

\* two first requests for a new key ran together: the create of the second was
\* refused (E11000) and the collection holds the document of the first
C15_SecondCreateRefused ==
  /\ last.op = "increment" /\ last.threw = "dup" /\ last.found = Null
  /\ "increment" \in last.by
  /\ Cardinality(WithKey(db[collectionName[last.pol]], last.key)) = 1
\* the times at which a call can have been made so far
Past == {t \in {i * TickMs : i \in 0..MaxTicks} : t <= clock}

\* the resetTime of every stored record is windowMs plus a time in the past
WindowsFromCalls ==
  \A coll \in Collections : \A d \in db[coll] :
    \E t \in Past : d.resetTime = t + 15 * 60 * 1000

\* C16: the resetTime of every stored record is windowMs plus the time of an
\* increment call; a step gives a record its resetTime only when it is the
\* create of an increment call or the save of one that found the record
\* expired, and the resetTime is then that call's time plus windowMs; no other
\* step (an increment inside the open window, decrement, get) changes it
C16_ResetTime ==
  [][/\ WindowsFromCalls /\ WindowsFromCalls'
     /\ \A coll \in Collections : \A d \in db'[coll] :
          (\A e \in db[coll] : e.id = d.id => e.resetTime # d.resetTime) =>
            /\ last'.op = "increment" /\ last'.threw = "none"
            /\ collectionName[last'.pol] = coll /\ last'.key = d.key
            /\ d.resetTime = last'.now + 15 * 60 * 1000
            /\ \/ last'.branch = "create"
               \/ /\ last'.branch = "reset"
                  /\ last'.now >= last'.found.resetTime]_vars

\* an increment made later in the open window of a record has counted, and the
\* record keeps the resetTime it had
C16_CountKeepsResetTime ==
  /\ last.op = "increment" /\ last.branch = "count" /\ last.threw = "none"
  /\ LET doc == store[collectionName[last.pol]][last.key] IN
       /\ doc # Null
       /\ doc.totalHits = last.found.totalHits + 1
       /\ doc.resetTime = last.found.resetTime
       /\ doc.resetTime < last.now + 15 * 60 * 1000
\* C17: a get, decrement, resetKey or cleanup call whose catch block caught an
\* error of the store returns undefined (it has returned: nothing is thrown to
\* the caller), and the step in which the operation failed leaves every
\* collection as it was
C17_SilentFailure ==
  [][(last'.op \in {"get", "decrement", "resetKey", "cleanup"}
      /\ last'.threw # "none") =>
       /\ last'.pc = "done"
       /\ last'.ret = Null
       /\ db' = db]_vars

\* the deleteOne of a get call that found an expired record failed: the call
\* returned undefined and the record is still stored
C17_GetDeleteFailed ==
  /\ last.op = "get" /\ last.threw = "store" /\ last.record # Null
  /\ last.ret = Null
  /\ store[collectionName[last.pol]][last.key] = last.record
\* C18: a decrement call changes a collection only when it found a record with
\* totalHits > 0 that was live (now < resetTime) when the call was made; an
\* expired record is left as it is
C18_DecrementOnLiveOnly ==
  [][(last'.op = "decrement" /\ db' # db) =>
       /\ last'.found # Null
       /\ last'.found.totalHits > 0
       /\ last'.now < last'.found.resetTime]_vars
\* C19: an increment call that is in flight returns in the end, and the request
\* is then forwarded or answered with 429: every increment call that has
\* returned gave the limiter a {totalHits, resetTime} value
C19_IncrementReturns ==
  /\ \A p \in Procs :
       (calls[p].op = "increment" /\ InFlight(calls[p])) ~> ~InFlight(calls[p])
  /\ [](last.op = "increment" =>
          /\ last.pc = "done"
          /\ last.ret # Null
          /\ last.ret.totalHits >= 1 /\ last.ret.resetTime > last.now
          /\ last.out \in {"forwarded", "rejected"})

\* an increment call returned after its record was removed under it and its
\* save threw
C19_ReturnedAfterSaveThrew ==
  /\ last.op = "increment" /\ last.threw = "notfound"
  /\ last.pc = "done" /\ last.out = "forwarded"
\* the decrement call c found a live record with totalHits > 0
FoundRefundableLive(c) ==
  /\ c.found # Null /\ c.found.totalHits > 0
  /\ c.now < c.found.resetTime

\* the decrement call c found no record, or one with totalHits = 0
FoundNothingToRefund(c) ==
  c.threw = "none" /\ (c.found = Null \/ c.found.totalHits = 0)

\* the record of the call's key is the one the call found, with one hit less
OneLess(c, doc) ==
  doc = Doc(c.found.id, c.found.totalHits - 1, c.found.resetTime)

GetReturnsAtOnce ==
  last'.op = "get" /\ budget' # budget

C25_GetDeletesOnlyExpired ==
  [][last'.op = "get" =>
       \A d \in db[collectionName[last'.pol]] \ db'[collectionName[last'.pol]] :
         clock >= d.resetTime]_vars
\* a step of an increment call after which the call is still in flight
IncrementGoesOn ==
  \E p \in Procs : /\ calls'[p].op = "increment"
                    /\ calls'[p].pc # calls[p].pc

\* C30: the step in which an operation of an increment call throws, after which
\* the call returns {totalHits: 1, resetTime: now + windowMs}, leaves every
\* collection as it was, and so do the steps of the call before it: no record
\* is created, counted or reset
C30_FailedIncrementNoEffect ==
  [][/\ (last'.op = "increment" /\ last'.threw # "none") =>
          /\ last'.ret = [totalHits |-> 1,
                          resetTime |-> last'.now + 15 * 60 * 1000]
          /\ db' = db
     /\ IncrementGoesOn => db' = db]_vars

\* the save of an increment call that found an expired record threw: the
\* record is stored as the call found it
C30_ResetNotSaved ==
  /\ last.op = "increment" /\ last.threw = "store" /\ last.branch = "reset"
  /\ ~last.overlapped
  /\ store[collectionName[last.pol]][last.key] = last.found
\* C26: with no failure of the store, a request that the auth limiter answers
\* with 429 has added one to the stored totalHits and left the stored resetTime
\* as it was; a request made at or after the resetTime of the record it finds
\* is forwarded and stores resetTime now + windowMs, and it stores totalHits 1
\* when it finds the client blocked (totalHits >= max), however many requests
\* were rejected before it
C26_BlockedThenAllowed ==
  [][last' # NoCall =>
       /\ last'.out = "rejected" =>
            /\ last'.found # Null /\ last'.now < last'.found.resetTime
            /\ AuthDoc'.totalHits = last'.found.totalHits + 1
            /\ AuthDoc'.totalHits = last'.ret.totalHits
            /\ AuthDoc'.resetTime = AuthDoc.resetTime
       /\ (last'.found # Null /\ last'.now >= last'.found.resetTime) =>
            /\ last'.out = "forwarded" /\ last'.resp = Null
            /\ last'.ret.totalHits = 1
            /\ AuthDoc'.resetTime = last'.now + windowMs["auth"]
            /\ last'.found.totalHits >= max["auth"] => AuthDoc'.totalHits = 1]_vars

\* two requests were answered with 429 inside the window, and the request made
\* when the window was over found totalHits 7 and was forwarded
C26_AllowedAfterTwoRejected ==
  /\ last.op = "increment" /\ last.out = "forwarded" /\ last.branch = "reset"
  /\ last.found.totalHits = 7
  /\ hist.rej = 2 /\ hist.fwd = 6
  /\ AuthDoc.totalHits = 1
\* the requests in the pipeline and the request answered last
Requests ==
  {reqs[p] : p \in {q \in Procs : reqs[q] # NoReq}}
  \cup (IF served = NoServed THEN {} ELSE {served})

\* C27: on the routes of the user and subscription routers the limiter is the
\* first middleware a request enters; a request answered with 429 has entered
\* nothing but the limiter; and a request that has entered authorize or the
\* handler had the store of its own router's limiter, and no other store, asked
\* once to count it, whatever its credentials
C27_LimiterFirst ==
  \A r \in Requests :
    r.target.router \in {"user", "subscription"} =>
      /\ r.entered >= 1 => IsLimiter(Stack(r.target)[1])
      /\ ("resp" \in DOMAIN r /\ "status" \in DOMAIN r.resp /\ r.resp.status = 429) =>
           /\ r.entered = 1
           /\ Entered(r) \subseteq DOMAIN Limiters
      /\ (\E m \in Entered(r) : ~IsLimiter(m)) =>
           r.counted = [pol \in Policies |-> IF pol = r.target.router THEN 1 ELSE 0]

\* a request with a valid token to a user route that requires one was answered
\* with 429 by the limiter, which had it counted
C27_Rejected429BeforeAuthorize ==
  /\ served # NoServed
  /\ served.target.router = "user" /\ served.cred = "valid"
  /\ "authorize" \in {served.target.route.stack[i] :
                         i \in 1..Len(served.target.route.stack)}
  /\ "status" \in DOMAIN served.resp /\ served.resp.status = 429
  /\ served.counted["user"] = 1
  /\ store["user_rate_limits"]["ip1"].totalHits = max["user"] + 1

\* C28: the requests of one client to /sign-up, /sign-in and /sign-out, sent one
\* after another inside one window, are counted in the same record of the auth
\* store whatever their path; with no failure of the store a request that finds
\* n requests counted stores n + 1, is forwarded when n < 5 and is answered
\* with 429 when n >= 5
C28_SharedAuthCeiling ==
  [][(reqs["p1"] # NoReq /\ reqs["p1"].target.router = "auth" /\ Returns("p1")) =>
       /\ last'.pol = "auth" /\ last'.key = "ip1"
       /\ \A coll \in Collections \ {"auth_rate_limits"} : db'[coll] = db[coll]
       /\ last'.threw = "none" =>
            LET n == IF last'.found = Null THEN 0 ELSE last'.found.totalHits IN
            /\ AuthDoc'.totalHits = n + 1
            /\ last'.out = IF n < 5 THEN "forwarded" ELSE "rejected"
            /\ n < 5 => (reqs'["p1"] = reqs["p1"] /\ served' = served)
            /\ n >= 5 => /\ served'.target = reqs["p1"].target
                         /\ served'.resp.status = 429]_vars

\* the sixth request of the window, to /sign-out, was answered with 429 after
\* the request before it, to /sign-in, had been answered
C28_SixthOnOtherEndpoint ==
  /\ served # NoServed
  /\ served.target.router = "auth" /\ served.target.route.path = "/sign-out"
  /\ "status" \in DOMAIN served.resp /\ served.resp.status = 429
  /\ served.before = "/sign-in"
  /\ last.op = "increment" /\ last.threw = "none"
  /\ last.found # Null /\ last.found.totalHits = 5
\* a body that both revisions of createUser take as complete
Complete(body) ==
  /\ body.name # Undefined /\ Trim(body.name) # <<>>
  /\ body.email # Undefined /\ Trim(body.email) # <<>>
  /\ body.password # Undefined /\ Trim(body.password) # <<>>
  /\ Len(body.password) >= 6

\* the call that has returned was refused because a stored user has the email
\* it asked for
EmailTaken ==
  /\ ans.out.via = "next" /\ ans.out # StoreError
  /\ ans.body.email # Undefined
  /\ \/ ans.op = "createUser" /\ Complete(ans.body)
        /\ \E u \in users : u.email = Email(ans.body.email)
     \/ ans.op = "updateUser" /\ ans.user # Null
        /\ \E u \in users : u.id # ans.id /\ u.email = Email(ans.body.email)

\* C22: no two stored users have the same email, in any interleaving of the
\* calls; and a createUser or updateUser call that is refused because another
\* stored user has the email reports an error with statusCode 409 through next
\* and, when no other call ran meanwhile, leaves the users as they were
C22_EmailUniqueness ==
  /\ \A u, v \in users : u.email = v.email => u.id = v.id
  /\ EmailTaken =>
       /\ ans.out.status = 409
       /\ ~ans.overlapped => users = ans.before.users

\* a field that is missing or an empty string
Lacking(field) == field = Undefined \/ field = <<>>

\* C23: when deleteUser(id) has answered with status 200 no user has the id
\* and no subscription has it as its user; and no step of a deleteUser(id) call
\* changes a user of another id or a subscription of another user
C23_CascadeDelete ==
  [][/\ (ans'.op = "deleteUser" /\ ans'.out.via = "res" /\ ans'.out.status = 200) =>
          /\ \A u \in users' : u.id # ans'.id
          /\ \A sub \in subscriptions' : sub.user # ans'.id
     /\ \A p \in Procs :
          (ctl[p].op = "deleteUser" /\ ctl'[p].pc # ctl[p].pc) =>
            /\ {u \in users' : u.id # ctl[p].id} = {u \in users : u.id # ctl[p].id}
            /\ {sub \in subscriptions' : sub.user # ctl[p].id}
                 = {sub \in subscriptions : sub.user # ctl[p].id}]_vars

\* deleteUser(1) answered 200: the user, who had two subscriptions, and the
\* subscriptions are gone, the other user and her subscription are there
C23_UserAndSubscriptionsGone ==
  /\ ans.op = "deleteUser" /\ ans.id = 1 /\ ans.out.status = 200
  /\ John \in ans.before.users
  /\ Cardinality({sub \in ans.before.subscriptions : sub.user = 1}) = 2
  /\ users = {Jane}
  /\ subscriptions = {Subscription(3, 2)}

\* C24: a createUser call whose name, email or password is missing or an empty
\* string returns at once, having passed an error with statusCode 400 and the
\* message 'Name, email, and password are required' to next; it sends no
\* response and the users are as before
C24_IncompleteRejected ==
  [][(/\ ans'.op = "createUser"
      /\ \/ Lacking(ans'.body.name)
         \/ Lacking(ans'.body.email)
         \/ Lacking(ans'.body.password)) =>
       /\ ans'.out.via = "next"
       /\ ans'.out.status = 400
       /\ ans'.out.message = "Name, email, and password are required"
       /\ budget' = budget - 1
       /\ data' = data]_vars

\* createUser was called with an empty email while a user was stored, and
\* refused
C24_EmptyEmailRefused ==
  /\ ans.op = "createUser" /\ ans.body.email = <<>>
  /\ ans.body.name # Undefined /\ ans.body.password # Undefined
  /\ ans.out.via = "next" /\ ans.out.status = 400
  /\ users = {John}

\* C29: when a deleteUser call during which no other call ran has reported an
\* error through next, the users and the subscriptions are as they were when
\* it was called
C29_DeleteAllOrNothing ==
  (ans.op = "deleteUser" /\ ans.out.via = "next" /\ ~ans.overlapped) =>
    /\ users = ans.before.users
    /\ subscriptions = ans.before.subscriptions
====
